---- MODULE Spec2Model ----
(***************************************************************************)
(* Model of src/app.py: the nutrient value pipeline (per-portion scaling,  *)
(* energy, rounding, non-significant zeroing, display formatting), the     *)
(* render dispatch of the three label formats, the rows and token streams  *)
(* the formats draw, the layout helpers compute_cols_vertical and          *)
(* draw_rich_wrapped_text, and the canvas and footnote of the two vertical *)
(* formats.                                                                *)
(*                                                                         *)
(* Numbers.  Python floats are modelled as exact decimal fixed-point       *)
(* integers: a quantity x is held as x * U (U = 10^4, one unit = 0.0001).  *)
(* Rounding to a decimal position (round(), "%.1f", "%.2f") rounds to the  *)
(* nearest; an exact decimal tie rounds half-to-even when the value is a   *)
(* binary fraction (a double holds it exactly) and otherwise goes whichever*)
(* way the nearest double lies, which the model leaves open (tieUp).       *)
(* Strings are sequences of one-character strings.                         *)
(***************************************************************************)
EXTENDS Integers, Sequences, FiniteSets, TLC

VARIABLES
    \* ---- input snapshot (widget state of the Streamlit script) ----
    format_choice,          \* "Fig1" | "Fig3" | "Fig5"
    household_mass,         \* portion size, whole g / mL
    selected_macros,        \* sequence, in the order the multiselect returns
    selected_optional_fats, \* sequence
    selected_vm,            \* sequence
    include_poly,           \* checkbox
    txt,                    \* per-100 text inputs, nutrient name -> value * U
    edits,                  \* number of widget interactions so far
    \* ---- direction of inexact decimal ties ----
    tieUp,
    \* ---- application of one pure helper to one argument ----
    fn_name, fn_arg, fn_micro, fn_val, fn_str, fn_calls

inVars  == <<format_choice, household_mass, selected_macros,
             selected_optional_fats, selected_vm, include_poly, txt, edits>>
fnVars  == <<fn_name, fn_arg, fn_micro, fn_val, fn_str, fn_calls>>
vars    == <<format_choice, household_mass, selected_macros,
             selected_optional_fats, selected_vm, include_poly, txt, edits,
             tieUp, fn_name, fn_arg, fn_micro, fn_val, fn_str, fn_calls>>

-----------------------------------------------------------------------------
\* Fixed-point scale: units per 1.0
U == 10 * 1000

\* ---- bounds of the model ----
MaxEdits == 2
MaxCalls == 2
MaxGridK == 1100
MaxFineK == 30
MaxNearK == 60
MaxRows  == 2
MaxTokens == 3

Abs(n) == IF n < 0 THEN -n ELSE n

Range(s) == {s[i] : i \in DOMAIN s}

\* A value n (in units) that a double holds exactly: n / 10^4 with the 5^4 cancelled.
Dyadic(n) == n % 625 = 0

\* Nearest integer to n / q (q > 0); ties as described in the header.
RoundHalf(n, q) ==
    LET fl == n \div q
        r  == n - fl * q
    IN  IF 2 * r < q THEN fl
        ELSE IF 2 * r > q THEN fl + 1
        ELSE IF Dyadic(n) THEN (IF fl % 2 = 0 THEN fl ELSE fl + 1)
        ELSE IF tieUp THEN fl + 1 ELSE fl

DigitChar(d) == <<"0", "1", "2", "3", "4", "5", "6", "7", "8", "9">>[d + 1]

RECURSIVE Digits(_)
Digits(n) == IF n < 10 THEN <<DigitChar(n)>>
             ELSE Digits(n \div 10) \o <<DigitChar(n % 10)>>

RECURSIVE Pad(_, _)
Pad(k, d) == IF d = 0 THEN <<>> ELSE Pad(k \div 10, d - 1) \o <<DigitChar(k % 10)>>

Pow10(d) == IF d = 0 THEN 1 ELSE IF d = 1 THEN 10 ELSE 100

\* Python f"{v:.<d>f}" for d in {1, 2}
FmtFixed(v, d) ==
    LET p == Pow10(d)
        m == RoundHalf(Abs(v), U \div p)
    IN  (IF v < 0 THEN <<"-">> ELSE <<>>) \o Digits(m \div p) \o <<".">> \o Pad(m % p, d)

\* Python f"{int(round(v))}"
FmtRoundInt(v) ==
    LET k == RoundHalf(v, U)
    IN  IF k < 0 THEN <<"-">> \o Digits(-k) ELSE Digits(k)

\* Python str.rstrip(c) for a one-character c
RECURSIVE rstrip(_, _)
rstrip(s, c) == IF s # <<>> /\ s[Len(s)] = c THEN rstrip(SubSeq(s, 1, Len(s) - 1), c)
                ELSE s

-----------------------------------------------------------------------------
\* UTILIDADES

kcal_from_macros(fat_g, carb_g, protein_g) ==
    9 * fat_g + 4 * carb_g + 4 * protein_g + 7 * 0 + 3 * 0

\* (a slip: the portion size is not tested before scaling)
portion_from_per100_unguarded(value_per100, portion_size) ==
    (value_per100 * portion_size) \div 100

portion_from_per100(value_per100, portion_size) ==
    IF portion_size # 0 /\ portion_size > 0
    THEN (value_per100 * portion_size) \div 100
    ELSE 0

\* (a slip: "<" for "<=")
round_kcal_lt(v) == IF v < 4 * U THEN 0 ELSE v

round_kcal(v) == IF v <= 4 * U THEN 0 ELSE v

fmt_kcal(v) == IF v = 0 THEN <<"0">>
               ELSE rstrip(rstrip(FmtFixed(v, 1), "0"), ".")

\* (a slip: whole units from 10 up instead of from 100 up)
round_g_from10(v) ==
    IF Abs(v) >= 10 * U THEN RoundHalf(v, U) * U
    ELSE RoundHalf(v, U \div 10) * (U \div 10)

round_g(v) ==
    IF Abs(v) >= 100 * U THEN RoundHalf(v, U) * U
    ELSE RoundHalf(v, U \div 10) * (U \div 10)

round_mg(v_mg) == IF v_mg < 5 * U THEN 0 ELSE RoundHalf(v_mg, U) * U

fmt_int(v) == FmtRoundInt(v)

\* Para tabla lineal: enteros sin decimales, decimales con 1 decimal
fmt_one_decimal(v) ==
    IF v % U = 0 THEN (IF v < 0 THEN <<"-">> \o Digits((-v) \div U) ELSE Digits(v \div U))
    ELSE FmtFixed(v, 1)

fmt_carbs_rule(v) ==
    IF v % U = 0 THEN (IF v < 0 THEN <<"-">> \o Digits((-v) \div U) ELSE Digits(v \div U))
    ELSE FmtFixed(v, 1)

\* unit is the unit text the caller passes, which the name already determines
fmt_micro_value(name, unit, v) ==
    (IF Abs(v) < 1 * U THEN FmtFixed(v, 2)
     ELSE IF Abs(v) < 10 * U THEN FmtFixed(v, 1)
     ELSE FmtRoundInt(v)) \o <<" ">> \o unit

\* (a slip: the one-decimal branch left unstripped)
fmt_art9_unstripped(value, is_micro) ==
    LET v  == value
        av == Abs(v)
    IN  IF av >= 10 * U THEN FmtRoundInt(v)
        ELSE IF av >= 1 * U THEN FmtFixed(v, 1)
        ELSE IF is_micro THEN FmtFixed(v, 2)
        ELSE FmtFixed(v, 1)

\* (a slip: the branches below 1 stripped like the one above)
fmt_art9_allstripped(value, is_micro) ==
    LET v  == value
        av == Abs(v)
    IN  IF av >= 10 * U THEN FmtRoundInt(v)
        ELSE IF av >= 1 * U THEN rstrip(rstrip(FmtFixed(v, 1), "0"), ".")
        ELSE IF is_micro THEN rstrip(rstrip(FmtFixed(v, 2), "0"), ".")
        ELSE rstrip(rstrip(FmtFixed(v, 1), "0"), ".")

fmt_art9(value, is_micro) ==
    LET v  == value
        av == Abs(v)
    IN  IF av >= 1000 * U THEN FmtRoundInt(v)
        ELSE IF av >= 100 * U THEN FmtRoundInt(v)
        ELSE IF av >= 10 * U THEN FmtRoundInt(v)
        ELSE IF av >= 1 * U THEN rstrip(rstrip(FmtFixed(v, 1), "0"), ".")
        ELSE IF is_micro THEN FmtFixed(v, 2)
        ELSE FmtFixed(v, 1)

-----------------------------------------------------------------------------
\* SIDEBAR: option lists and widget defaults

macro_order ==
    <<"Grasa total", "Grasa saturada", "Grasas trans", "Carbohidratos totales",
      "Fibra dietaria", "Azúcares totales", "Azúcares añadidos", "Proteína", "Sodio">>

optional_fat_options == <<"Grasa monoinsaturada", "Grasa poliinsaturada">>

mandatory_micros == <<"Vitamina A", "Vitamina D", "Hierro", "Calcio", "Zinc">>

vm_options ==
    <<"Vitamina A", "Vitamina D", "Hierro", "Calcio", "Zinc",
      "Vitamina C", "Vitamina B1", "Vitamina E", "Fósforo", "Vitamina K", "Yodo",
      "Magnesio", "Niacina", "Ácido pantoténico", "Selenio", "Vitamina B6", "Cobre",
      "Riboflavina", "Manganeso", "Tiamina", "Cromo", "Folato", "Molibdeno",
      "Biotina", "Cloruro", "Vitamina B12">>

\* ---- bound: how many of the voluntary vitamins / minerals the user may pick ----
MaxVoluntary == 2
VmChoices    == {vm_options[i] : i \in 1..(5 + MaxVoluntary)}

\* value="..." of each per-100 text input (every micronutrient input starts at "0")
DefaultTxt ==
    [n \in Range(macro_order) \cup Range(optional_fat_options) \cup {"Polialcoholes"}
            \cup VmChoices |->
        CASE n = "Grasa total"           -> 13 * U
          [] n = "Grasa saturada"        -> 6 * U
          [] n = "Grasas trans"          -> 820 * U
          [] n = "Carbohidratos totales" -> 31 * U
          [] n = "Azúcares totales"      -> 5 * U
          [] n = "Azúcares añadidos"     -> 2 * U
          [] n = "Fibra dietaria"        -> 8 * (U \div 10)
          [] n = "Proteína"              -> 5 * U
          [] n = "Sodio"                 -> 560 * U
          [] OTHER                       -> 0]

DefaultPortion == 40

\* ---- what the model lets the user type or pick ----
PortionValues == {-40, 0, 40}
GramValues   == {0, U \div 2, 150 * U}
MgValues     == {5 * U, 125 * (U \div 10), 80 * U}
MgNames      == {"Grasas trans", "Sodio"}
MicroValues  == {0, 45 * (U \div 100)}

InSeq(x, s) == x \in Range(s)

Without(s, x) == SelectSeq(s, LAMBDA y : y # x)

\* a multiselect: deselecting drops the option, selecting appends it
Toggled(s, x) == IF InSeq(x, s) THEN Without(s, x) ELSE Append(s, x)

\* ---- text: a Python str as the sequence of its characters ----
\* the characters of each option name of the sidebar
Chars(name) ==
    CASE name = "Grasa total" ->
            <<"G", "r", "a", "s", "a", " ", "t", "o", "t", "a", "l">>
      [] name = "Grasa monoinsaturada" ->
            <<"G", "r", "a", "s", "a", " ", "m", "o", "n", "o", "i", "n", "s", "a", "t",
              "u", "r", "a", "d", "a">>
      [] name = "Grasa poliinsaturada" ->
            <<"G", "r", "a", "s", "a", " ", "p", "o", "l", "i", "i", "n", "s", "a", "t",
              "u", "r", "a", "d", "a">>
      [] name = "Grasa saturada" ->
            <<"G", "r", "a", "s", "a", " ", "s", "a", "t", "u", "r", "a", "d", "a">>
      [] name = "Grasas trans" ->
            <<"G", "r", "a", "s", "a", "s", " ", "t", "r", "a", "n", "s">>
      [] name = "Carbohidratos totales" ->
            <<"C", "a", "r", "b", "o", "h", "i", "d", "r", "a", "t", "o", "s", " ", "t",
              "o", "t", "a", "l", "e", "s">>
      [] name = "Fibra dietaria" ->
            <<"F", "i", "b", "r", "a", " ", "d", "i", "e", "t", "a", "r", "i", "a">>
      [] name = "Azúcares totales" ->
            <<"A", "z", "ú", "c", "a", "r", "e", "s", " ", "t", "o", "t", "a", "l", "e",
              "s">>
      [] name = "Azúcares añadidos" ->
            <<"A", "z", "ú", "c", "a", "r", "e", "s", " ", "a", "ñ", "a", "d", "i", "d",
              "o", "s">>
      [] name = "Proteína" ->
            <<"P", "r", "o", "t", "e", "í", "n", "a">>
      [] name = "Sodio" ->
            <<"S", "o", "d", "i", "o">>
      [] name = "Vitamina A" ->
            <<"V", "i", "t", "a", "m", "i", "n", "a", " ", "A">>
      [] name = "Vitamina D" ->
            <<"V", "i", "t", "a", "m", "i", "n", "a", " ", "D">>
      [] name = "Hierro" ->
            <<"H", "i", "e", "r", "r", "o">>
      [] name = "Calcio" ->
            <<"C", "a", "l", "c", "i", "o">>
      [] name = "Zinc" ->
            <<"Z", "i", "n", "c">>
      [] name = "Vitamina C" ->
            <<"V", "i", "t", "a", "m", "i", "n", "a", " ", "C">>
      [] name = "Vitamina B1" ->
            <<"V", "i", "t", "a", "m", "i", "n", "a", " ", "B", "1">>
      [] name = "Vitamina E" ->
            <<"V", "i", "t", "a", "m", "i", "n", "a", " ", "E">>
      [] name = "Fósforo" ->
            <<"F", "ó", "s", "f", "o", "r", "o">>
      [] name = "Vitamina K" ->
            <<"V", "i", "t", "a", "m", "i", "n", "a", " ", "K">>
      [] name = "Polialcoholes" ->
            <<"P", "o", "l", "i", "a", "l", "c", "o", "h", "o", "l", "e", "s">>

-----------------------------------------------------------------------------
\* Construcción automática del texto "No es fuente significativa de ..."

macros_not_declared == SelectSeq(macro_order, LAMBDA m : ~InSeq(m, selected_macros))

micros_not_declared == SelectSeq(mandatory_micros, LAMBDA m : ~InSeq(m, selected_vm))

footnote_items == macros_not_declared \o micros_not_declared

\* sep.join(items)
RECURSIVE join(_, _)
join(sep, items) ==
    IF items = <<>> THEN <<>>
    ELSE IF Len(items) = 1 THEN Chars(items[1])
    ELSE Chars(items[1]) \o sep \o join(sep, Tail(items))

NoSignifPrefix ==
    <<"N", "o", " ", "e", "s", " ", "f", "u", "e", "n", "t", "e", " ", "s", "i", "g", "n",
      "i", "f", "i", "c", "a", "t", "i", "v", "a", " ", "d", "e", " ">>

\* (a slip: the prefix is written even when nothing is left to list)
footnote_text_always ==
    NoSignifPrefix \o join(<<",", " ">>, footnote_items)

footnote_text ==
    IF footnote_items # <<>>
    THEN NoSignifPrefix \o join(<<",", " ">>, footnote_items)
    ELSE <<>>

-----------------------------------------------------------------------------
\* ENTRADAS PRINCIPALES (por 100 g/mL): 0.0 when the nutrient is not declared

Entered(name, sel) == IF InSeq(name, sel) THEN txt[name] ELSE 0

fat_total_100    == Entered("Grasa total", selected_macros)
sat_fat_100      == Entered("Grasa saturada", selected_macros)
trans_fat_100_mg == Entered("Grasas trans", selected_macros)
mono_fat_100     == Entered("Grasa monoinsaturada", selected_optional_fats)
poly_fat_100     == Entered("Grasa poliinsaturada", selected_optional_fats)
carb_100         == Entered("Carbohidratos totales", selected_macros)
sug_total_100    == Entered("Azúcares totales", selected_macros)
sug_added_100    == Entered("Azúcares añadidos", selected_macros)
fiber_100        == Entered("Fibra dietaria", selected_macros)
protein_100      == Entered("Proteína", selected_macros)
sodium_100_mg    == Entered("Sodio", selected_macros)
poly_100         == IF include_poly THEN txt["Polialcoholes"] ELSE 0

\* Valores de micronutrientes seleccionados (por 100).  vm_values is a dict: its
\* keys come out in insertion order, and the two column loops insert the selections
\* at even positions first, then those at odd positions.
vm_unit(name) ==
    IF name = "Vitamina A" THEN <<"µ", "g", " ", "E", "R">>
    ELSE IF name = "Vitamina D" THEN <<"µ", "g">>
    ELSE <<"m", "g">>

\* s[r], s[r + 2], ... counting positions from 0 as enumerate() does
EveryOther(s, r) == [j \in 1..((Len(s) + 1 - r) \div 2) |-> s[2 * j - 1 + r]]

vm_values ==
    LET keys == EveryOther(selected_vm, 0) \o EveryOther(selected_vm, 1)
    IN  [k \in DOMAIN keys |->
            [name |-> keys[k], unit |-> vm_unit(keys[k]), v100 |-> txt[keys[k]]]]

-----------------------------------------------------------------------------
\* CÁLCULOS

portion_size == household_mass

\* Por porción (sin redondear)
fat_total_pp    == portion_from_per100(fat_total_100, portion_size)
sat_fat_pp      == portion_from_per100(sat_fat_100, portion_size)
trans_fat_pp_mg == portion_from_per100(trans_fat_100_mg, portion_size)
carb_pp         == portion_from_per100(carb_100, portion_size)
sug_total_pp    == portion_from_per100(sug_total_100, portion_size)
sug_added_pp    == portion_from_per100(sug_added_100, portion_size)
fiber_pp        == portion_from_per100(fiber_100, portion_size)
protein_pp      == portion_from_per100(protein_100, portion_size)
sodium_pp_mg    == portion_from_per100(sodium_100_mg, portion_size)
mono_fat_pp     == portion_from_per100(mono_fat_100, portion_size)
poly_fat_pp     == portion_from_per100(poly_fat_100, portion_size)

\* Energía (antes de redondear)
kcal_100_raw == kcal_from_macros(fat_total_100, carb_100, protein_100)
kcal_pp_raw  == kcal_from_macros(fat_total_pp, carb_pp, protein_pp)
kcal_100     == round_kcal(kcal_100_raw)
kcal_pp      == round_kcal(kcal_pp_raw)

\* limits.get(name, -1) of nonsig_zero_g, in units of 1/U g
limits_g(name) ==
    CASE name = "Carbohidratos totales" -> U \div 2
      [] name = "Azúcares totales"      -> U \div 2
      [] name = "Proteína"              -> U \div 2
      [] name = "Grasa total"           -> U \div 2
      [] name = "Fibra dietaria"        -> U \div 2
      [] name = "Grasa saturada"        -> U \div 10
      [] OTHER                          -> -U

\* limits.get(name, -1) of nonsig_zero_mg, in units of 1/U mg
limits_mg(name) ==
    CASE name = "Grasas trans" -> 100 * U
      [] name = "Sodio"        -> 5 * U
      [] OTHER                 -> -U

\* nonsig_zero_g on a gram quantity held with k * U units per gram
NonsigZeroG(name, v, k) == IF v <= limits_g(name) * k THEN 0 ELSE v

nonsig_zero_g(name, v) == NonsigZeroG(name, v, 1)

nonsig_zero_mg(name, v) == IF v <= limits_mg(name) THEN 0 ELSE v

\* Por 100
fat_total_100_r == round_g(nonsig_zero_g("Grasa total", fat_total_100))
sat_fat_100_r   == round_g(nonsig_zero_g("Grasa saturada", sat_fat_100))
carb_100_r      == round_g(carb_100)
sug_total_100_r == round_g(sug_total_100)
sug_added_100_r == round_g(sug_added_100)
fiber_100_r     == round_g(fiber_100)
protein_100_r   == round_g(protein_100)
sodium_100_mg_r == round_mg(sodium_100_mg)
mono_fat_100_r  == round_g(mono_fat_100)
poly_fat_100_r  == round_g(poly_fat_100)
\* x mg / 1000.0 is x thousandths of a gram: the same count of units, 1000 * U to the
\* gram; nonsig_zero_g looks "Grasas trans" up in the gram table; * 1000.0 goes back.
trans_g_100        == NonsigZeroG("Grasas trans", trans_fat_100_mg, 1000)
trans_fat_100_mg_r == round_mg(trans_g_100)

\* Por porción
fat_total_pp_r == round_g(nonsig_zero_g("Grasa total", fat_total_pp))
sat_fat_pp_r   == round_g(nonsig_zero_g("Grasa saturada", sat_fat_pp))
carb_pp_r      == round_g(carb_pp)
sug_total_pp_r == round_g(sug_total_pp)
sug_added_pp_r == round_g(sug_added_pp)
fiber_pp_r     == round_g(fiber_pp)
protein_pp_r   == round_g(protein_pp)
sodium_pp_mg_r == round_mg(sodium_pp_mg)
mono_fat_pp_r  == round_g(mono_fat_pp)
poly_fat_pp_r  == round_g(poly_fat_pp)
\* PARA GRASAS TRANS POR PORCIÓN: NO APLICAR CRITERIO DE "NO SIGNIFICATIVO"
trans_g_pp        == trans_fat_pp_mg
\* (a slip: the milligram threshold applied per portion as well)
trans_fat_pp_mg_r_zeroed == round_mg(nonsig_zero_mg("Grasas trans", trans_g_pp))
trans_fat_pp_mg_r == round_mg(trans_g_pp)

\* Micronutrientes por porción
vm_values_rounded == vm_values

vm_pp ==
    LET items == vm_values
    IN  [k \in DOMAIN items |->
            [name |-> items[k].name, unit |-> items[k].unit,
             vpp |-> portion_from_per100(items[k].v100, portion_size)]]

\* The names the CÁLCULOS section binds at module level (lines 468-496)
ModuleGlobals ==
    {"fat_total_100_r", "sat_fat_100_r", "carb_100_r", "sug_total_100_r",
     "sug_added_100_r", "fiber_100_r", "protein_100_r", "sodium_100_mg_r",
     "mono_fat_100_r", "poly_fat_100_r", "trans_fat_100_mg_r",
     "fat_total_pp_r", "sat_fat_pp_r", "carb_pp_r", "sug_total_pp_r",
     "sug_added_pp_r", "fiber_pp_r", "protein_pp_r", "sodium_pp_mg_r",
     "mono_fat_pp_r", "poly_fat_pp_r", "trans_fat_pp_mg_r"}

-----------------------------------------------------------------------------
\* ESTILO

BORDER_W     == 6
GRID_W       == 3
GRID_W_THICK == 9
ROW_H        == 64
ROW_H_MICRO  == 54
CELL_PAD_X   == 22

\* Fuentes: a font is its pixel size and its face (DejaVu Sans / DejaVu Sans Bold)
get_font(size, bold) == [size |-> size, bold |-> bold]

FONT_LABEL        == get_font(30, FALSE)
FONT_LABEL_EMPH_B == get_font((30 * 13) \div 10, TRUE)
FONT_SMALL        == get_font(26, FALSE)
FONT_SMALL_B      == get_font(26, TRUE)
FONT_SMALL_EMPH_B == get_font((26 * 13) \div 10, TRUE)
FONT_MICRO        == get_font(24, FALSE)

\* Medición.  The width PIL reports is taken as the summed advance of the glyphs; the
\* advances of the two faces are grouped in three classes, in hundredths of the size.
NarrowGlyphs == {"i", "j", "l", "í", "I", "J", " ", ".", ",", ":", ";", "/", "f", "-",
                 "(", ")", "t", "r"}
WideGlyphs   == {"m", "w", "M", "W", "%"}

Advance(ch, bold) ==
    IF ch \in NarrowGlyphs THEN (IF bold THEN 40 ELSE 34)
    ELSE IF ch \in WideGlyphs THEN (IF bold THEN 103 ELSE 93)
    ELSE (IF bold THEN 70 ELSE 64)

RECURSIVE SumAdvance(_, _)
SumAdvance(text, bold) ==
    IF text = <<>> THEN 0 ELSE Advance(Head(text), bold) + SumAdvance(Tail(text), bold)

\* the width component of measure_text(draw, text, font)
measure_text(text, font) == (SumAdvance(text, font.bold) * font.size) \div 100

\* Python str.strip() of blanks
RECURSIVE lstrip(_, _)
lstrip(s, c) == IF s # <<>> /\ s[1] = c THEN lstrip(Tail(s), c) ELSE s

strip(s) == lstrip(rstrip(s, " "), " ")

column_labels(is_liquid) ==
    <<IF ~is_liquid THEN <<"P", "o", "r", " ", "1", "0", "0", " ", "g">>
      ELSE <<"P", "o", "r", " ", "1", "0", "0", " ", "m", "L">>,
      <<"P", "o", "r", " ", "p", "o", "r", "c", "i", "ó", "n">>>>

\* the running maximum of the loops of compute_cols_vertical, from 0
RECURSIVE MaxFrom(_, _)
MaxFrom(m, ws) ==
    IF ws = <<>> THEN m ELSE MaxFrom(IF Head(ws) > m THEN Head(ws) ELSE m, Tail(ws))

\* The height PIL reports is the distance from the top of the tallest glyph to the bottom
\* of the deepest one; the extents of both faces are grouped in classes, in hundredths
\* of the size, above and below the baseline.
AccentGlyphs == {"á", "é", "í", "ó", "ú", "ñ"}
LowGlyphs    == {"a", "c", "e", "g", "m", "n", "o", "p", "q", "r", "s", "u", "v", "w", "x",
                 "y", "z", "µ", ":"}
DeepGlyphs   == {"g", "j", "p", "q", "y", "µ", "J"}
HangGlyphs   == {",", "(", ")", "Q"}

Rise(ch) ==
    IF ch \in AccentGlyphs THEN 80
    ELSE IF ch \in LowGlyphs THEN 56
    ELSE IF ch \in {".", ","} THEN 12
    ELSE IF ch = " " THEN 0
    ELSE 75

Depth(ch) ==
    IF ch \in DeepGlyphs THEN 21 ELSE IF ch \in HangGlyphs THEN 13 ELSE 0

\* the height component of measure_text(draw, text, font)
text_height(text, font) ==
    IF text = <<>> THEN 0
    ELSE ((MaxFrom(0, [i \in DOMAIN text |-> Rise(text[i])])
           + MaxFrom(0, [i \in DOMAIN text |-> Depth(text[i])])) * font.size) \div 100

INDENT_PX == 28

EmphasisLabels ==
    {Chars("Grasa saturada"), Chars("Grasas trans"), Chars("Azúcares añadidos"),
     Chars("Sodio")}

\* (a slip: every label measured in the regular label font)
LabelFont_regular(label) == FONT_LABEL

\* usar fuente grande solo si es un nutriente enfatizado
LabelFont(label) ==
    IF strip(label) \in EmphasisLabels THEN FONT_LABEL_EMPH_B ELSE FONT_LABEL

\* [x0, x1, x2, x3]; labels_with_indent is a sequence of <<label, indent>>
ColOffsets(labels_with_indent, v100_list, vpp_list, is_liquid) ==
    LET name_w_max == MaxFrom(0, [i \in DOMAIN labels_with_indent |->
                          measure_text(strip(labels_with_indent[i][1]),
                                       LabelFont(labels_with_indent[i][1]))
                          + labels_with_indent[i][2] * INDENT_PX])
        v100_w_max == MaxFrom(0, [i \in DOMAIN v100_list |->
                          measure_text(v100_list[i], FONT_LABEL)])
        vpp_w_max  == MaxFrom(0, [i \in DOMAIN vpp_list |->
                          measure_text(vpp_list[i], FONT_LABEL)])
        col100_w   == measure_text(column_labels(is_liquid)[1], FONT_SMALL_B)
        colpp_w    == measure_text(column_labels(is_liquid)[2], FONT_SMALL_B)
        final_name_width   == name_w_max + 15 + GRID_W
        name_to_values_gap == 35
        values_gap         == 20
        right_margin       == 15
        x0 == BORDER_W + CELL_PAD_X
        x1 == x0 + final_name_width + name_to_values_gap
        col100_width == (IF v100_w_max > col100_w THEN v100_w_max ELSE col100_w) + 15
        x2 == x1 + col100_width + values_gap
        colpp_width == (IF vpp_w_max > colpp_w THEN vpp_w_max ELSE colpp_w) + 4
        x3 == x2 + colpp_width + right_margin
    IN  <<x0, x1, x2, x3>>

\* (a slip: the canvas is never widened)
compute_cols_vertical_fixed_W(labels_with_indent, v100_list, vpp_list, W, is_liquid) ==
    [col_x |-> ColOffsets(labels_with_indent, v100_list, vpp_list, is_liquid), W |-> W]

compute_cols_vertical(labels_with_indent, v100_list, vpp_list, W, is_liquid) ==
    LET col_x == ColOffsets(labels_with_indent, v100_list, vpp_list, is_liquid)
        total_width_needed == col_x[4]
    IN  [col_x |-> col_x,
         W |-> IF total_width_needed > W THEN total_width_needed + BORDER_W * 2 ELSE W]

\* ---- Texto enriquecido con ajuste de línea ----
\* A token is <<text, weight>>; an optional argument (first_line_x=None) is <<>> or <<v>>.

TokenFont(b) ==
    IF b = "emph" THEN FONT_SMALL_EMPH_B
    ELSE IF b = "bold" THEN FONT_SMALL_B
    ELSE FONT_SMALL

\* Renderizado: the font each token of a line is drawn with
DrawnFont(b) ==
    IF b = "emph" THEN FONT_SMALL_EMPH_B
    ELSE IF b = "bold" THEN FONT_SMALL_B
    ELSE FONT_SMALL

RECURSIVE TokensWidth(_)
TokensWidth(tokens_list) ==
    IF tokens_list = <<>> THEN 0
    ELSE measure_text(Head(tokens_list)[1], TokenFont(Head(tokens_list)[2]))
         + TokensWidth(Tail(tokens_list))

measure_tokens(tokens_list, is_first_line, x, first_line_x) ==
    TokensWidth(tokens_list)
    + (IF is_first_line /\ first_line_x # <<>> THEN first_line_x[1] - x ELSE 0)

\* (a slip: "<" for "<=")
Fits_strict(tentative, is_first, x, max_w, first_line_x) ==
    measure_tokens(tentative, is_first, x, first_line_x) < max_w

Fits(tentative, is_first, x, max_w, first_line_x) ==
    measure_tokens(tentative, is_first, x, first_line_x) <= max_w

\* (a slip: the pending line is never stored)
Flushed_never(lines, current) == lines

\* if current: lines.append(current)
Flushed(lines, current) == IF current # <<>> THEN Append(lines, current) ELSE lines

\* Construcción de líneas: the loop over tokens, then the last flush
RECURSIVE BuildLines(_, _, _, _, _, _)
BuildLines(tokens, lines, current, x, max_w, first_line_x) ==
    IF tokens = <<>> THEN Flushed(lines, current)
    ELSE LET t == Head(tokens)[1]
             is_first  == Len(lines) = 0
             tentative == Append(current, Head(tokens))
         IN  IF t = <<>>
             THEN BuildLines(Tail(tokens), lines, current, x, max_w, first_line_x)
             ELSE IF Fits(tentative, is_first, x, max_w, first_line_x)
             THEN BuildLines(Tail(tokens), lines, tentative, x, max_w, first_line_x)
             ELSE BuildLines(Tail(tokens), Flushed(lines, current), <<Head(tokens)>>,
                             x, max_w, first_line_x)

\* the lines it draws and the y it returns
draw_rich_wrapped_text(x, y, tokens, max_w, line_gap, first_line_x) ==
    LET lines == BuildLines(tokens, <<>>, <<>>, x, max_w, first_line_x)
    IN  [lines |-> lines, y |-> y + Len(lines) * (FONT_SMALL.size + line_gap)]

-----------------------------------------------------------------------------
\* FILAS: a row is (label, per-100 string, per-portion string, indent, bold, is_micro)

Row(label, v100, vpp, indent, bold, is_micro) ==
    [label |-> label, v100 |-> v100, vpp |-> vpp,
     indent |-> indent, bold |-> bold, is_micro |-> is_micro]

\* f"{fmt_art9(v)} g" and f"{fmt_art9(v)} mg"
With_g(v)  == fmt_art9(v, FALSE) \o <<" ", "g">>
With_mg(v) == fmt_art9(v, FALSE) \o <<" ", "m", "g">>

\* the tuple each "if ... in selected_...: rows.append((...))" of common_rows appends
MacroRow(name) ==
    CASE name = "Grasa total" ->
            Row(name, With_g(fat_total_100_r), With_g(fat_total_pp_r), 0, FALSE, FALSE)
      [] name = "Grasa monoinsaturada" ->
            Row(name, With_g(mono_fat_100_r), With_g(mono_fat_pp_r), 1, FALSE, FALSE)
      [] name = "Grasa poliinsaturada" ->
            Row(name, With_g(poly_fat_100_r), With_g(poly_fat_pp_r), 1, FALSE, FALSE)
      [] name = "Grasa saturada" ->
            Row(name, With_g(sat_fat_100_r), With_g(sat_fat_pp_r), 1, TRUE, FALSE)
      [] name = "Grasas trans" ->
            Row(name, With_mg(trans_fat_100_mg_r), With_mg(trans_fat_pp_mg_r), 1, TRUE, FALSE)
      [] name = "Carbohidratos totales" ->
            Row(name, With_g(carb_100_r), With_g(carb_pp_r), 0, FALSE, FALSE)
      [] name = "Fibra dietaria" ->
            Row(name, With_g(fiber_100_r), With_g(fiber_pp_r), 1, FALSE, FALSE)
      [] name = "Azúcares totales" ->
            Row(name, With_g(sug_total_100_r), With_g(sug_total_pp_r), 1, FALSE, FALSE)
      [] name = "Azúcares añadidos" ->
            Row(name, With_g(sug_added_100_r), With_g(sug_added_pp_r), 2, TRUE, FALSE)
      [] name = "Proteína" ->
            Row(name, With_g(protein_100_r), With_g(protein_pp_r), 0, FALSE, FALSE)
      [] name = "Sodio" ->
            Row(name, With_mg(sodium_100_mg_r), With_mg(sodium_pp_mg_r), 0, TRUE, FALSE)

\* (a slip: every row at indent level 0)
RowIf_flat(name, sel) ==
    IF InSeq(name, sel) THEN <<[MacroRow(name) EXCEPT !.indent = 0]>> ELSE <<>>

RowIf(name, sel) == IF InSeq(name, sel) THEN <<MacroRow(name)>> ELSE <<>>

\* (a slip: one row per selected item, in the order the multiselects return them)
common_rows_as_selected ==
    [i \in 1..(Len(selected_macros) + Len(selected_optional_fats)) |->
        MacroRow((selected_macros \o selected_optional_fats)[i])]

common_rows ==
    RowIf("Grasa total", selected_macros)
    \o RowIf("Grasa monoinsaturada", selected_optional_fats)
    \o RowIf("Grasa poliinsaturada", selected_optional_fats)
    \o RowIf("Grasa saturada", selected_macros)
    \o RowIf("Grasas trans", selected_macros)
    \o RowIf("Carbohidratos totales", selected_macros)
    \o RowIf("Fibra dietaria", selected_macros)
    \o RowIf("Azúcares totales", selected_macros)
    \o RowIf("Azúcares añadidos", selected_macros)
    \o RowIf("Proteína", selected_macros)
    \o RowIf("Sodio", selected_macros)

\* f"{fmt_art9(v, is_micro=True)} {unit}"
With_unit(v, unit) == fmt_art9(v, TRUE) \o <<" ">> \o unit

\* obligatorios (en orden fijo), then the other keys of vm_values_rounded as they come
micro_rows ==
    LET keys      == vm_values_rounded
        pps       == vm_pp
        mandatory == mandatory_micros
        firstOf(m) == SelectSeq(keys, LAMBDA e : e.name = m)
        ordered   == firstOf(mandatory[1]) \o firstOf(mandatory[2]) \o firstOf(mandatory[3])
                     \o firstOf(mandatory[4]) \o firstOf(mandatory[5])
                     \o SelectSeq(keys, LAMBDA e : ~InSeq(e.name, mandatory))
        \* vm_pp[(name, unit)]
        vpp(e)    == pps[CHOOSE k \in DOMAIN pps :
                            pps[k].name = e.name /\ pps[k].unit = e.unit].vpp
    IN  [i \in DOMAIN ordered |->
            Row(ordered[i].name,
                With_unit(ordered[i].v100, ordered[i].unit),
                With_unit(vpp(ordered[i]), ordered[i].unit),
                0, FALSE, TRUE)]

-----------------------------------------------------------------------------
\* FIGURA 1 / FIGURA 3: the canvas and the multi-line footnote under the rows.

\* sidebar widget the model leaves at its first option ("Sólido (g)")
is_liquid == FALSE

\* Python text.split(' '): the pieces between consecutive blanks, empty ones included
split(text) ==
    LET n      == Len(text)
        cuts   == {0, n + 1} \cup {i \in 1..n : text[i] = " "}
        kth(k) == CHOOSE c \in cuts : Cardinality({d \in cuts : d < c}) = k
    IN  [k \in 1..(Cardinality(cuts) - 1) |-> SubSeq(text, kth(k - 1) + 1, kth(k) - 1)]

\* ' '.join(words)
RECURSIVE JoinBlank(_)
JoinBlank(words) ==
    IF words = <<>> THEN <<>>
    ELSE IF Len(words) = 1 THEN words[1]
    ELSE words[1] \o <<" ">> \o JoinBlank(Tail(words))

\* Pie multilínea: the loop over words, then the last flush
RECURSIVE FootLines(_, _, _, _)
FootLines(words, lines, current_line, max_w) ==
    IF words = <<>>
    THEN (IF current_line # <<>> THEN Append(lines, JoinBlank(current_line)) ELSE lines)
    ELSE LET word      == Head(words)
             test_line == JoinBlank(Append(current_line, word))
         IN  IF measure_text(test_line, FONT_SMALL) <= max_w
             THEN FootLines(Tail(words), lines, Append(current_line, word), max_w)
             ELSE FootLines(Tail(words),
                            IF current_line # <<>>
                            THEN Append(lines, JoinBlank(current_line)) ELSE lines,
                            <<word>>, max_w)

\* What draw_fig1 / draw_fig3 lay out: the canvas size, the column offsets, where each
\* row's values are drawn and in which font, and the footnote lines with their y.
VerticalCanvas(rows_nutri, rows_micro) ==
    LET show_micro      == Len(rows_micro) > 0
        header_h        == 165
        gap_after_title == 5
        text            == footnote_text
        foot_h          == IF strip(text) # <<>> THEN 90 ELSE 20
        body_rows_h     == Len(rows_nutri) * ROW_H
                           + (IF show_micro THEN Len(rows_micro) * ROW_H_MICRO ELSE 0)
        rows_all        == rows_nutri \o (IF show_micro THEN rows_micro ELSE <<>>)
        cols == compute_cols_vertical(
                    [i \in DOMAIN rows_all |-> <<Chars(rows_all[i].label), rows_all[i].indent>>],
                    [i \in DOMAIN rows_all |-> rows_all[i].v100],
                    [i \in DOMAIN rows_all |-> rows_all[i].vpp],
                    580, is_liquid)
        H == BORDER_W * 2 + header_h + gap_after_title + GRID_W_THICK
             + (ROW_H * 2) + GRID_W_THICK + body_rows_h + GRID_W_THICK + foot_h
        y_header_bottom == BORDER_W + header_h
        \* draw_calories_combined_row returns y + row_h; each row adds 1 and its height
        y == (y_header_bottom + 1) + ROW_H * 2
             + Len(rows_nutri) * (1 + ROW_H)
             + (IF show_micro THEN Len(rows_micro) * (1 + ROW_H_MICRO) ELSE 0)
        max_w == cols.W - 2 * BORDER_W - 2 * CELL_PAD_X
        lines == IF text # <<>> THEN FootLines(split(text), <<>>, <<>>, max_w) ELSE <<>>
    IN  [W |-> cols.W, H |-> H, col_x |-> cols.col_x, y |-> y,
         font_val |-> [i \in DOMAIN rows_all |->
                          IF i > Len(rows_nutri) THEN FONT_MICRO
                          ELSE IF rows_all[i].bold THEN FONT_LABEL_EMPH_B ELSE FONT_LABEL],
         rows |-> rows_all,
         lines |-> lines,
         line_y |-> [i \in DOMAIN lines |-> (y + 15) + (i - 1) * (FONT_SMALL.size + 6)]]

\* the layout of the variant the dispatch draws; only Fig. 1 has micronutrient rows
vertical_canvas ==
    IF format_choice = "Fig1" THEN VerticalCanvas(common_rows, micro_rows)
    ELSE VerticalCanvas(common_rows, <<>>)

-----------------------------------------------------------------------------
\* FIGURA 5: the two token streams handed to draw_rich_wrapped_text.
\* The weights True / False / None of the tuples are written "True", "False", "None".

\* sidebar widgets the model leaves at their value="..." / first option
household_name   == <<"1", " ", "u", "n", "i", "d", "a", "d">>
portion_unit     == <<"g">>
servings_display == <<"0">>

SepToken == <<<<",", " ">>, "False">>

tokens_item(label, value, unit, bold, emph) ==
    LET flag == IF emph THEN "emph" ELSE IF bold THEN "bold" ELSE "None"
    IN  <<<<label, flag>>, <<<<" ">>, flag>>, <<value, flag>>>>
        \o (IF unit # <<>> THEN <<<<<<" ">> \o unit, flag>>>> ELSE <<>>)

\* tokens_item(...) + [(", ", False)] of one "if name in selected_macros" block
Fig5Item(name, v) ==
    (CASE name \in {"Grasa saturada", "Azúcares añadidos"} ->
            tokens_item(Chars(name), fmt_one_decimal(v), <<"g">>, FALSE, TRUE)
       [] name \in {"Grasas trans", "Sodio"} ->
            tokens_item(Chars(name), fmt_int(v), <<"m", "g">>, FALSE, TRUE)
       [] name = "Carbohidratos totales" ->
            tokens_item(Chars(name), fmt_carbs_rule(v), <<"g">>, FALSE, FALSE)
       [] OTHER ->
            tokens_item(Chars(name), fmt_one_decimal(v), <<"g">>, FALSE, FALSE))
    \o <<SepToken>>

ItemIf(name, v) == IF InSeq(name, selected_macros) THEN Fig5Item(name, v) ELSE <<>>

\* Micronutrientes: one descriptive token and a separator per selected mandatory one;
\* valueOf[name] is vm_values_rounded.get((name, unit), 0) or vm_pp.get((name, unit), 0)
RECURSIVE MicroItems(_, _)
MicroItems(names, valueOf) ==
    IF names = <<>> THEN <<>>
    ELSE (IF InSeq(Head(names), selected_vm)
          THEN <<<<Chars(Head(names)) \o <<" ">>
                   \o fmt_micro_value(Head(names), vm_unit(Head(names)), valueOf[Head(names)]),
                   "False">>,
                 SepToken>>
          ELSE <<>>)
         \o MicroItems(Tail(names), valueOf)

\* The Polialcoholes item (if include_poly, between Fibra dietaria and Azúcares
\* totales) reads poly_100_r / poly_pp_r, which are unbound: with include_poly the
\* call raises before any stream is handed over (see draw_fig5 below).
tokens_100 ==
    tokens_item(<<"C", "a", "l", "o", "r", "í", "a", "s">>, fmt_kcal(kcal_100),
                <<"k", "c", "a", "l">>, FALSE, TRUE) \o <<SepToken>>
    \o ItemIf("Grasa total", fat_total_100_r)
    \o ItemIf("Grasa saturada", sat_fat_100_r)
    \o ItemIf("Grasas trans", trans_fat_100_mg_r)
    \o ItemIf("Carbohidratos totales", carb_100_r)
    \o ItemIf("Fibra dietaria", fiber_100_r)
    \o ItemIf("Azúcares totales", sug_total_100_r)
    \o ItemIf("Azúcares añadidos", sug_added_100_r)
    \o ItemIf("Proteína", protein_100_r)
    \o ItemIf("Sodio", sodium_100_mg_r)
    \o MicroItems(mandatory_micros,
                  LET items == vm_values_rounded
                  IN  [n \in {items[k].name : k \in DOMAIN items} |->
                          items[CHOOSE k \in DOMAIN items : items[k].name = n].v100])

\* Quitar coma final si existe
TrimmedSep(tokens) ==
    IF tokens # <<>> /\ tokens[Len(tokens)] = SepToken
    THEN SubSeq(tokens, 1, Len(tokens) - 1)
    ELSE tokens

\* footnote_text.replace("No es fuente significativa de ", ""): the text starts with
\* the prefix and no option name contains it
WithoutPrefix(text) ==
    IF Len(text) >= Len(NoSignifPrefix) /\ SubSeq(text, 1, Len(NoSignifPrefix)) = NoSignifPrefix
    THEN SubSeq(text, Len(NoSignifPrefix) + 1, Len(text))
    ELSE text

tokens_pp ==
    LET built ==
            <<<<<<"T", "a", "m", "a", "ñ", "o", " ", "d", "e", " ", "p", "o", "r", "c", "i", "ó", "n", ":">>, "True">>,
              <<<<" ">>, "False">>,
              <<household_name \o <<" ", "(">> \o FmtRoundInt(portion_size * U)
                    \o <<" ">> \o portion_unit \o <<")">>, "False">>,
              SepToken,
              <<<<"N", "ú", "m", "e", "r", "o", " ", "d", "e", " ", "p", "o", "r", "c", "i", "o", "n", "e", "s", " ", "p", "o", "r">>
                    \o <<" ", "e", "n", "v", "a", "s", "e", ":">>, "True">>,
              <<<<" ">>, "False">>,
              <<servings_display, "False">>,
              SepToken>>
            \o tokens_item(<<"C", "a", "l", "o", "r", "í", "a", "s">>, fmt_kcal(kcal_pp),
                           <<"k", "c", "a", "l">>, FALSE, TRUE) \o <<SepToken>>
            \o ItemIf("Grasa total", fat_total_pp_r)
            \o ItemIf("Grasa saturada", sat_fat_pp_r)
            \o ItemIf("Grasas trans", trans_fat_pp_mg_r)
            \o ItemIf("Carbohidratos totales", carb_pp_r)
            \o ItemIf("Fibra dietaria", fiber_pp_r)
            \o ItemIf("Azúcares totales", sug_total_pp_r)
            \o ItemIf("Azúcares añadidos", sug_added_pp_r)
            \o ItemIf("Proteína", protein_pp_r)
            \o ItemIf("Sodio", sodium_pp_mg_r)
            \o MicroItems(mandatory_micros,
                          LET items == vm_pp
                          IN  [n \in {items[k].name : k \in DOMAIN items} |->
                                  items[CHOOSE k \in DOMAIN items : items[k].name = n].vpp])
        text == footnote_text
    IN  TrimmedSep(built)
        \o (IF strip(text) # <<>>
            THEN <<<<<<".", " ">>, "False">>,
                   <<NoSignifPrefix, "False">>,
                   <<WithoutPrefix(text), "False">>>>
            ELSE <<>>)

-----------------------------------------------------------------------------
\* The three renderers: what the call returns (an image, or the exception it raises) and
\* the energy strings it puts on the label.

Image(k100, kpp) == [status |-> "image", kcal_100_txt |-> k100, kcal_pp_txt |-> kpp]

Raised(exc) == [status |-> exc, kcal_100_txt |-> <<>>, kcal_pp_txt |-> <<>>]

\* FIGURA 1 — VERTICAL ESTÁNDAR
draw_fig1 == Image(fmt_kcal(kcal_100), fmt_kcal(kcal_pp))

\* FIGURA 3 — SIMPLIFICADO
draw_fig3 == Image(fmt_int(kcal_100), fmt_int(kcal_pp))

\* The module-level names draw_fig5 reads while it builds tokens_100 and tokens_pp
Fig5Reads ==
    (IF InSeq("Grasa total", selected_macros) THEN {"fat_total_100_r", "fat_total_pp_r"} ELSE {})
    \cup (IF InSeq("Grasa saturada", selected_macros) THEN {"sat_fat_100_r", "sat_fat_pp_r"} ELSE {})
    \cup (IF InSeq("Grasas trans", selected_macros) THEN {"trans_fat_100_mg_r", "trans_fat_pp_mg_r"} ELSE {})
    \cup (IF InSeq("Carbohidratos totales", selected_macros) THEN {"carb_100_r", "carb_pp_r"} ELSE {})
    \cup (IF InSeq("Fibra dietaria", selected_macros) THEN {"fiber_100_r", "fiber_pp_r"} ELSE {})
    \cup (IF include_poly THEN {"poly_100_r", "poly_pp_r"} ELSE {})
    \cup (IF InSeq("Azúcares totales", selected_macros) THEN {"sug_total_100_r", "sug_total_pp_r"} ELSE {})
    \cup (IF InSeq("Azúcares añadidos", selected_macros) THEN {"sug_added_100_r", "sug_added_pp_r"} ELSE {})
    \cup (IF InSeq("Proteína", selected_macros) THEN {"protein_100_r", "protein_pp_r"} ELSE {})
    \cup (IF InSeq("Sodio", selected_macros) THEN {"sodium_100_mg_r", "sodium_pp_mg_r"} ELSE {})

\* FIGURA 5 — LINEAL / TABULAR
draw_fig5 ==
    IF Fig5Reads \subseteq ModuleGlobals
    THEN Image(fmt_kcal(kcal_100), fmt_kcal(kcal_pp))
    ELSE Raised("NameError")

\* PREVISUALIZACIÓN: the dispatch on format_choice
img_prev ==
    IF format_choice = "Fig1" THEN draw_fig1
    ELSE IF format_choice = "Fig3" THEN draw_fig3
    ELSE draw_fig5

-----------------------------------------------------------------------------
\* The application.  The script keeps no state of its own between runs: the widget
\* state is all there is, and every interaction reruns the whole script on the new
\* widget state.  Everything the run computes (the definitions above, up to img_prev)
\* is therefore a function of the state the interaction leaves.

Formats == {"Fig1", "Fig3", "Fig5"}

Init ==
    /\ format_choice = "Fig1"
    /\ household_mass = DefaultPortion
    /\ selected_macros = macro_order
    /\ selected_optional_fats = <<>>
    /\ selected_vm = mandatory_micros
    /\ include_poly = FALSE
    /\ txt = DefaultTxt
    /\ edits = 0
    /\ tieUp \in BOOLEAN
    /\ fn_name = "none" /\ fn_arg = 0 /\ fn_micro = FALSE
    /\ fn_val = 0 /\ fn_str = <<>> /\ fn_calls = 0

\* what every interaction shares: one more edit
Rerun ==
    /\ edits < MaxEdits
    /\ edits' = edits + 1
    /\ UNCHANGED <<tieUp, fn_name, fn_arg, fn_micro, fn_val, fn_str, fn_calls>>

SelectFormat ==
    /\ \E f \in Formats \ {format_choice} : format_choice' = f
    /\ UNCHANGED <<household_mass, selected_macros, selected_optional_fats,
                   selected_vm, include_poly, txt>>
    /\ Rerun

SetPortion ==
    /\ \E p \in PortionValues \ {household_mass} : household_mass' = p
    /\ UNCHANGED <<format_choice, selected_macros, selected_optional_fats,
                   selected_vm, include_poly, txt>>
    /\ Rerun

\* a text input that leaves or re-enters the page restarts from its value="..."
ToggleMacro ==
    /\ \E m \in Range(macro_order) :
          /\ selected_macros' = Toggled(selected_macros, m)
          /\ txt' = [txt EXCEPT ![m] = DefaultTxt[m]]
    /\ UNCHANGED <<format_choice, household_mass, selected_optional_fats,
                   selected_vm, include_poly>>
    /\ Rerun

ToggleOptionalFat ==
    /\ \E m \in Range(optional_fat_options) :
          /\ selected_optional_fats' = Toggled(selected_optional_fats, m)
          /\ txt' = [txt EXCEPT ![m] = DefaultTxt[m]]
    /\ UNCHANGED <<format_choice, household_mass, selected_macros,
                   selected_vm, include_poly>>
    /\ Rerun

ToggleVm ==
    /\ \E m \in VmChoices :
          /\ selected_vm' = Toggled(selected_vm, m)
          /\ txt' = [txt EXCEPT ![m] = DefaultTxt[m]]
    /\ UNCHANGED <<format_choice, household_mass, selected_macros,
                   selected_optional_fats, include_poly>>
    /\ Rerun

TogglePoly ==
    /\ include_poly' = ~include_poly
    /\ txt' = [txt EXCEPT !["Polialcoholes"] = DefaultTxt["Polialcoholes"]]
    /\ UNCHANGED <<format_choice, household_mass, selected_macros,
                   selected_optional_fats, selected_vm>>
    /\ Rerun

\* typing a per-100 value into a text input that is on the page
SetValue ==
    /\ \E n \in DOMAIN txt :
          /\ \/ InSeq(n, selected_macros)
             \/ InSeq(n, selected_optional_fats)
             \/ InSeq(n, selected_vm)
             \/ (n = "Polialcoholes" /\ include_poly)
          /\ \E v \in (IF n \in MgNames THEN MgValues
                      ELSE IF n \in VmChoices THEN MicroValues
                      ELSE GramValues) \ {txt[n]} :
                txt' = [txt EXCEPT ![n] = v]
    /\ UNCHANGED <<format_choice, household_mass, selected_macros,
                   selected_optional_fats, selected_vm, include_poly>>
    /\ Rerun

Next ==
    \/ SelectFormat
    \/ SetPortion
    \/ ToggleMacro
    \/ ToggleOptionalFat
    \/ ToggleVm
    \/ TogglePoly
    \/ SetValue

Spec == Init /\ [][Next]_vars

-----------------------------------------------------------------------------
\* The pure helpers on their own: one argument drawn from FnInputs, one helper applied
\* to it (round_g possibly again to its own result, fmt_kcal to round_kcal's result).

\* 0.01 steps over [-MaxGridK/100, MaxGridK/100], 0.001 steps around 0, 0.01 steps
\* around 100 and 1000, and the values just off the energy threshold
FnInputs ==
    {k * (U \div 100) : k \in -MaxGridK..MaxGridK}
    \cup {k * (U \div 1000) : k \in -MaxFineK..MaxFineK}
    \cup {s * (100 * U + k * (U \div 100)) : k \in -MaxNearK..MaxNearK, s \in {-1, 1}}
    \cup {s * (1000 * U + k * (U \div 100)) : k \in -MaxNearK..MaxNearK, s \in {-1, 1}}
    \cup {4 * U - 1, 4 * U + 1, 150 * U, 261 * U, 1044 * (U \div 10), 12345 * (U \div 10)}

InitFn ==
    /\ format_choice = "Fig1"
    /\ household_mass = DefaultPortion
    /\ selected_macros = macro_order
    /\ selected_optional_fats = <<>>
    /\ selected_vm = mandatory_micros
    /\ include_poly = FALSE
    /\ txt = DefaultTxt
    /\ edits = 0
    /\ tieUp \in BOOLEAN
    /\ fn_name = "none"
    /\ fn_arg \in FnInputs
    /\ fn_micro \in BOOLEAN
    /\ fn_val = 0 /\ fn_str = <<>> /\ fn_calls = 0

FnFrame == UNCHANGED <<format_choice, household_mass, selected_macros,
                       selected_optional_fats, selected_vm, include_poly, txt, edits,
                       tieUp, fn_arg, fn_micro>>

CallRoundKcal ==
    /\ fn_name = "none"
    /\ fn_name' = "round_kcal"
    /\ fn_val' = round_kcal(fn_arg)
    /\ fn_calls' = 1
    /\ UNCHANGED fn_str
    /\ FnFrame

CallFmtKcal ==
    /\ fn_name = "round_kcal"
    /\ fn_name' = "fmt_kcal"
    /\ fn_str' = fmt_kcal(fn_val)
    /\ fn_calls' = 1
    /\ UNCHANGED fn_val
    /\ FnFrame

CallRoundG ==
    /\ fn_name \in {"none", "round_g"}
    /\ fn_calls < MaxCalls
    /\ fn_name' = "round_g"
    /\ fn_val' = round_g(IF fn_name = "none" THEN fn_arg ELSE fn_val)
    /\ fn_calls' = fn_calls + 1
    /\ UNCHANGED fn_str
    /\ FnFrame

CallRoundMg ==
    /\ fn_name = "none"
    /\ fn_name' = "round_mg"
    /\ fn_val' = round_mg(fn_arg)
    /\ fn_calls' = 1
    /\ UNCHANGED fn_str
    /\ FnFrame

CallFmtArt9 ==
    /\ fn_name = "none"
    /\ fn_name' = "fmt_art9"
    /\ fn_str' = fmt_art9(fn_arg, fn_micro)
    /\ fn_calls' = 1
    /\ UNCHANGED fn_val
    /\ FnFrame

NextFn ==
    \/ CallRoundKcal
    \/ CallFmtKcal
    \/ CallRoundG
    \/ CallRoundMg
    \/ CallFmtArt9

SpecFn == InitFn /\ [][NextFn]_vars

-----------------------------------------------------------------------------
\* The two layout helpers on their own: compute_cols_vertical on a row set and
\* draw_rich_wrapped_text on a token sequence, each argument list drawn from the
\* sets below.

SeqsUpTo(S, n) == UNION {[1..k -> S] : k \in 0..n}

\* (label, indent) pairs as the row builders hand them over
RowChoices ==
    {<<Chars("Grasa total"), 0>>, <<Chars("Grasa saturada"), 1>>,
     <<Chars("Azúcares añadidos"), 2>>, <<Chars("Carbohidratos totales"), 0>>,
     <<Chars("Fibra dietaria"), 1>>, <<Chars("Sodio"), 0>>, <<Chars("Zinc"), 0>>}

ValueLists ==
    {<<>>,
     <<<<"0", " ", "g">>>>,
     <<<<"1", "5", "0", " ", "g">>, <<"5", "6", "0", "0", " ", "m", "g">>>>,
     <<<<"0", ".", "4", "5", " ", "µ", "g", " ", "E", "R">>>>}

\* W = 580 of draw_fig1 / draw_fig3
NominalW == 580

ColsInputs ==
    {[fn |-> "compute_cols_vertical", labels_with_indent |-> l, v100_list |-> a,
      vpp_list |-> b, W |-> NominalW, is_liquid |-> q] :
        l \in SeqsUpTo(RowChoices, MaxRows), a \in ValueLists, b \in ValueLists,
        q \in BOOLEAN}

TokSodio    == <<Chars("Sodio"), "emph">>
TokSep      == <<<<",", " ">>, "False">>
TokProteina == <<Chars("Proteína"), "bold">>

TokenChoices == {TokSodio, TokSep, TokProteina, <<<<>>, "False">>, <<NoSignifPrefix, "None">>}

\* W = 1700 of draw_fig5 and its max_line_width
LinearW == 1700
max_line_width == LinearW - 2 * BORDER_W - 2 * CELL_PAD_X

\* a width too small for one token, two that a token sequence fills exactly, the real one
WrapWidths ==
    {TokensWidth(<<TokSodio>>) - 1, TokensWidth(<<TokSodio, TokSep>>),
     TokensWidth(<<TokSodio, TokSep, TokProteina>>), max_line_width}

\* x of draw_fig5; first_line_x absent, at x, or past an inline heading
WrapX == BORDER_W + CELL_PAD_X
FirstLineChoices == {<<>>, <<WrapX>>, <<WrapX + TokensWidth(<<TokProteina>>)>>}

WrapInputs ==
    {[fn |-> "draw_rich_wrapped_text", x |-> WrapX, y |-> BORDER_W + 20, tokens |-> t,
      max_w |-> w, line_gap |-> 4, first_line_x |-> f] :
        t \in SeqsUpTo(TokenChoices, MaxTokens), w \in WrapWidths, f \in FirstLineChoices}

InitLayout ==
    /\ format_choice = "Fig1"
    /\ household_mass = DefaultPortion
    /\ selected_macros = macro_order
    /\ selected_optional_fats = <<>>
    /\ selected_vm = mandatory_micros
    /\ include_poly = FALSE
    /\ txt = DefaultTxt
    /\ edits = 0
    /\ tieUp = FALSE
    /\ fn_name = "none"
    /\ fn_arg \in ColsInputs \cup WrapInputs
    /\ fn_micro = FALSE
    /\ fn_val = 0 /\ fn_str = <<>> /\ fn_calls = 0

CallComputeCols ==
    /\ fn_name = "none"
    /\ fn_arg.fn = "compute_cols_vertical"
    /\ fn_name' = "compute_cols_vertical"
    /\ fn_val' = compute_cols_vertical(fn_arg.labels_with_indent, fn_arg.v100_list,
                                       fn_arg.vpp_list, fn_arg.W, fn_arg.is_liquid)
    /\ fn_calls' = 1
    /\ UNCHANGED fn_str
    /\ FnFrame

CallWrap ==
    /\ fn_name = "none"
    /\ fn_arg.fn = "draw_rich_wrapped_text"
    /\ fn_name' = "draw_rich_wrapped_text"
    /\ fn_val' = draw_rich_wrapped_text(fn_arg.x, fn_arg.y, fn_arg.tokens, fn_arg.max_w,
                                        fn_arg.line_gap, fn_arg.first_line_x)
    /\ fn_calls' = 1
    /\ UNCHANGED fn_str
    /\ FnFrame

NextLayout ==
    \/ CallComputeCols
    \/ CallWrap

SpecLayout == InitLayout /\ [][NextLayout]_vars

-----------------------------------------------------------------------------
\* A session picked up late.  The widget state is one that earlier interactions of
\* a longer session leave (macros taken out of the multiselect from the front of the
\* list, the mandatory micronutrients kept or all taken out, a sodium content typed
\* in); the same interactions as in Spec follow, the last one the bound allows.

\* macro_order without its first k entries
SessionMacros == {SubSeq(macro_order, k + 1, Len(macro_order)) : k \in {0, 3, 6, 9}}

SessionVm == {mandatory_micros, <<>>}

\* Sodio (mg/100): the default, and 1500 mg per 100 g
SessionSodium == {DefaultTxt["Sodio"], 1500 * U}

InitSession ==
    /\ format_choice \in {"Fig1", "Fig3"}
    /\ household_mass = DefaultPortion
    /\ selected_macros \in SessionMacros
    /\ selected_optional_fats = <<>>
    /\ selected_vm \in SessionVm
    /\ include_poly = FALSE
    /\ \E na \in SessionSodium : txt = [DefaultTxt EXCEPT !["Sodio"] = na]
    /\ edits = MaxEdits - 1
    /\ tieUp = FALSE
    /\ fn_name = "none" /\ fn_arg = 0 /\ fn_micro = FALSE
    /\ fn_val = 0 /\ fn_str = <<>> /\ fn_calls = 0

SpecSession == InitSession /\ [][Next]_vars

-----------------------------------------------------------------------------
\* Properties

\* reading a displayed number back: position of the point, digits after it, value in units
PointPos(s) == IF \E i \in DOMAIN s : s[i] = "." THEN CHOOSE i \in DOMAIN s : s[i] = "." ELSE 0

Decimals(s) == IF PointPos(s) = 0 THEN 0 ELSE Len(s) - PointPos(s)

DigitVal(c) == CHOOSE d \in 0..9 : DigitChar(d) = c

RECURSIVE DigitsVal(_)
DigitsVal(s) == IF s = <<>> THEN 0
                ELSE 10 * DigitsVal(SubSeq(s, 1, Len(s) - 1)) + DigitVal(s[Len(s)])

ParseDec(s) ==
    LET neg  == s # <<>> /\ s[1] = "-"
        body == IF neg THEN Tail(s) ELSE s
        pp   == PointPos(body)
        ip   == IF pp = 0 THEN body ELSE SubSeq(body, 1, pp - 1)
        fp   == IF pp = 0 THEN <<>> ELSE SubSeq(body, pp + 1, Len(body))
        mag  == DigitsVal(ip) * U + DigitsVal(fp) * (U \div Pow10(Len(fp)))
    IN  IF neg THEN -mag ELSE mag

\* C1: every input snapshot renders to an image; no combination of format, polyalcohols
\* toggle, portion, selection and footnote ends the render in an error.
C1_RenderReturnsImage == img_prev.status = "image"

NonsigNames == {"Carbohidratos totales", "Azúcares totales", "Proteína", "Grasa total",
                "Fibra dietaria", "Grasa saturada"}

NonsigThreshold(n) == IF n = "Grasa saturada" THEN U \div 10 ELSE U \div 2

Raw100(n) ==
    CASE n = "Carbohidratos totales" -> carb_100
      [] n = "Azúcares totales"      -> sug_total_100
      [] n = "Proteína"              -> protein_100
      [] n = "Grasa total"           -> fat_total_100
      [] n = "Fibra dietaria"        -> fiber_100
      [] n = "Grasa saturada"        -> sat_fat_100

RawPP(n) ==
    CASE n = "Carbohidratos totales" -> carb_pp
      [] n = "Azúcares totales"      -> sug_total_pp
      [] n = "Proteína"              -> protein_pp
      [] n = "Grasa total"           -> fat_total_pp
      [] n = "Fibra dietaria"        -> fiber_pp
      [] n = "Grasa saturada"        -> sat_fat_pp

Declared100(n) ==
    CASE n = "Carbohidratos totales" -> carb_100_r
      [] n = "Azúcares totales"      -> sug_total_100_r
      [] n = "Proteína"              -> protein_100_r
      [] n = "Grasa total"           -> fat_total_100_r
      [] n = "Fibra dietaria"        -> fiber_100_r
      [] n = "Grasa saturada"        -> sat_fat_100_r

DeclaredPP(n) ==
    CASE n = "Carbohidratos totales" -> carb_pp_r
      [] n = "Azúcares totales"      -> sug_total_pp_r
      [] n = "Proteína"              -> protein_pp_r
      [] n = "Grasa total"           -> fat_total_pp_r
      [] n = "Fibra dietaria"        -> fiber_pp_r
      [] n = "Grasa saturada"        -> sat_fat_pp_r

ZeroedOrRounded(raw, thr, declared) ==
    /\ raw <= thr => declared = 0
    /\ raw > thr  => declared = round_g(raw)

\* C2: for carbohydrate, total sugars, protein, total fat, fiber (0.5 g) and saturated
\* fat (0.1 g), in each column on its own, a raw value at or below the threshold is
\* declared 0 and a raw value above it is declared round_g(raw).
C2_NonsigZeroingEveryMacro ==
    \A n \in NonsigNames :
        /\ ZeroedOrRounded(Raw100(n), NonsigThreshold(n), Declared100(n))
        /\ ZeroedOrRounded(RawPP(n), NonsigThreshold(n), DeclaredPP(n))

SodiumZeroedOrNearest(raw, declared) ==
    /\ raw <= 5 * U => declared = 0
    /\ raw > 5 * U  => declared = RoundHalf(raw, U) * U

\* C3: sodium is declared 0 in a column whenever its raw value there is at most 5 mg
\* (5 mg included), and the nearest integer otherwise.
C3_SodiumZeroAtOrBelow5 ==
    /\ SodiumZeroedOrNearest(sodium_100_mg, sodium_100_mg_r)
    /\ SodiumZeroedOrNearest(sodium_pp_mg, sodium_pp_mg_r)

\* C4: per 100, trans fat at or below 100 mg is declared 0 (80 mg gives 0); above
\* 100 mg it is declared round_mg(raw).
C4_TransPer100ZeroAtOrBelow100 ==
    /\ trans_fat_100_mg <= 100 * U => trans_fat_100_mg_r = 0
    /\ trans_fat_100_mg > 100 * U  => trans_fat_100_mg_r = round_mg(trans_fat_100_mg)

\* the raw per-portion trans fat: per-100 mg times portion size over 100
TransRawPP == IF household_mass > 0
              THEN (Entered("Grasas trans", selected_macros) * household_mass) \div 100
              ELSE 0

C6_RoundKcal ==
    fn_name = "round_kcal" =>
        /\ (fn_val = 0) <=> (fn_arg <= 4 * U)
        /\ fn_arg > 4 * U => fn_val = fn_arg

C6_Witness == fn_name = "round_kcal" /\ fn_arg = 4 * U + 1 /\ fn_val = 4 * U + 1

C7_Rounded ==
    (fn_name = "round_g" /\ fn_calls = 1) =>
        IF Abs(fn_arg) >= 100 * U
        THEN fn_val % U = 0 /\ 2 * Abs(fn_val - fn_arg) <= U
        ELSE fn_val % (U \div 10) = 0 /\ 20 * Abs(fn_val - fn_arg) <= U

C7_Idempotent == (fn_name = "round_g" /\ fn_name' = "round_g") => fn_val' = fn_val

\* C7: round_g(v) is v rounded to a whole number when |v| >= 100 and to one decimal
\* otherwise, and applying round_g to its own result changes nothing.
C7_RoundG == [](C7_Rounded) /\ [][C7_Idempotent]_vars

C7_Witness ==
    /\ fn_name = "round_g" /\ fn_calls = 2
    /\ fn_arg = 9996 * (U \div 100)
    /\ fn_val = 100 * U

Art9Examples(eight) ==
    fn_name = "fmt_art9" =>
        /\ (fn_arg = 4 * (U \div 1000) /\ fn_micro)  => fn_str = <<"0", ".", "0", "0">>
        /\ (fn_arg = 4 * (U \div 1000) /\ ~fn_micro) => fn_str = <<"0", ".", "0">>
        /\ (fn_arg = 796 * (U \div 100) /\ ~fn_micro) => fn_str = eight
        /\ (fn_arg = 150 * U /\ ~fn_micro)           => fn_str = <<"1", "5", "0">>

\* C8 as stated: fmt_art9(0.004, is_micro=True) is "0.00", fmt_art9(0.004) is "0.0",
\* fmt_art9(7.96) is "8.0" and fmt_art9(150) is "150".
C8_AsStated == Art9Examples(<<"8", ".", "0">>)

\* C8 amended: fmt_art9(0.004, is_micro=True) is "0.00", fmt_art9(0.004) is "0.0",
\* fmt_art9(7.96) is "8" and fmt_art9(150) is "150".
C8_Art9Examples == Art9Examples(<<"8">>)

C8_Witness ==
    /\ fn_name = "fmt_art9" /\ ~fn_micro
    /\ fn_arg = 796 * (U \div 100)
    /\ fn_str = <<"8">>

\* C9: fmt_art9 formats by magnitude: |v| >= 10 the nearest integer, no decimals;
\* 1 <= |v| < 10 one decimal with a trailing zero and then a trailing point removed;
\* |v| < 1 exactly two decimals when is_micro and exactly one otherwise, unstripped.
C9_Art9ByMagnitude ==
    fn_name = "fmt_art9" =>
        LET s   == fn_str
            av  == Abs(fn_arg)
            off == Abs(ParseDec(s) - fn_arg)
        IN  IF av >= 10 * U
            THEN PointPos(s) = 0 /\ 2 * off <= U
            ELSE IF av >= U
            THEN /\ Decimals(s) <= 1
                 /\ s[Len(s)] # "."
                 /\ Decimals(s) = 1 => s[Len(s)] # "0"
                 /\ 20 * off <= U
            ELSE /\ Decimals(s) = (IF fn_micro THEN 2 ELSE 1)
                 /\ (IF fn_micro THEN 200 ELSE 20) * off <= U

C9_Witness ==
    /\ fn_name = "fmt_art9" /\ fn_micro
    /\ fn_arg = 0
    /\ fn_str = <<"0", ".", "0", "0">>

\* C10: in each of the three formats the energy strings on the label are fmt_kcal of
\* the declared energy ("0" for 0, else one decimal with trailing zero and point
\* removed); the default inputs (portion 40, fat 13, carbohydrate 31, protein 5)
\* show "261" and "104.4".
C10_EnergyShownIsFmtKcal ==
    img_prev.status = "image" =>
        /\ img_prev.kcal_100_txt = fmt_kcal(kcal_100)
        /\ img_prev.kcal_pp_txt = fmt_kcal(kcal_pp)
        /\ (household_mass = 40 /\ fat_total_100 = 13 * U /\ carb_100 = 31 * U
            /\ protein_100 = 5 * U) =>
               /\ img_prev.kcal_100_txt = <<"2", "6", "1">>
               /\ img_prev.kcal_pp_txt = <<"1", "0", "4", ".", "4">>

\* ---- C11 ----
\* every raw per-100 value the script scales, next to its per-portion value
PerPortionPairs ==
    {<<fat_total_100, fat_total_pp>>, <<sat_fat_100, sat_fat_pp>>,
     <<trans_fat_100_mg, trans_fat_pp_mg>>, <<carb_100, carb_pp>>,
     <<sug_total_100, sug_total_pp>>, <<sug_added_100, sug_added_pp>>,
     <<fiber_100, fiber_pp>>, <<protein_100, protein_pp>>,
     <<sodium_100_mg, sodium_pp_mg>>,
     <<mono_fat_100, mono_fat_pp>>, <<poly_fat_100, poly_fat_pp>>}
    \cup (LET v100s == vm_values
              vpps  == vm_pp
          IN  {<<v100s[k].v100, vpps[k].vpp>> : k \in DOMAIN v100s})

\* C11: every per-portion raw value (macros, optional fats, micronutrients) is
\* per-100 value * portion size / 100 when the portion size is > 0; when the portion
\* size is <= 0 every per-portion value and the per-portion energy are 0 (a number:
\* the scaling never faults).
C11_PerPortionScaling ==
    /\ \A pr \in PerPortionPairs :
          /\ pr[2] \in Int
          /\ IF household_mass > 0
             THEN pr[2] * 100 = pr[1] * household_mass
             ELSE pr[2] = 0
    /\ DOMAIN vm_pp = 1..Len(selected_vm)
    /\ household_mass <= 0 => kcal_pp_raw = 0

\* a negative portion size with a declared fat and a micronutrient value typed in
C11_Witness ==
    /\ household_mass < 0
    /\ fat_total_100 > 0 /\ fat_total_pp = 0
    /\ LET v100s == vm_values
           vpps  == vm_pp
       IN  \E k \in DOMAIN v100s : v100s[k].v100 > 0 /\ vpps[k].vpp = 0

\* ---- C12 ----
CanonicalMacroRows ==
    <<"Grasa total", "Grasa monoinsaturada", "Grasa poliinsaturada", "Grasa saturada",
      "Grasas trans", "Carbohidratos totales", "Fibra dietaria", "Azúcares totales",
      "Azúcares añadidos", "Proteína", "Sodio">>

Labels(rows) == [i \in DOMAIN rows |-> rows[i].label]

\* C12: the labels of common_rows are exactly the canonical sequence filtered to the
\* selected macros and optional fats (each once, nothing else), whatever the order in
\* which the multiselects hold the selection.
C12_MacroRowsCanonical ==
    Labels(common_rows) =
        SelectSeq(CanonicalMacroRows,
                  LAMBDA n : InSeq(n, selected_macros) \/ InSeq(n, selected_optional_fats))

\* Grasa total deselected and selected again: last in the selection, first in the rows
C12_Witness ==
    /\ Len(selected_macros) = Len(macro_order)
    /\ selected_macros[Len(selected_macros)] = "Grasa total"
    /\ common_rows[1].label = "Grasa total"
    /\ common_rows[Len(common_rows)].label = "Sodio"

\* ---- C13 ----
\* C13: micro_rows lists the selected mandatory micronutrients first, in the fixed
\* order Vitamina A, Vitamina D, Hierro, Calcio, Zinc, and then the selected voluntary
\* ones in exactly the order in which the user selected them.
C13_MicroRowsOrder ==
    Labels(micro_rows) =
        SelectSeq(mandatory_micros, LAMBDA m : InSeq(m, selected_vm))
        \o SelectSeq(selected_vm, LAMBDA m : ~InSeq(m, mandatory_micros))

\* ---- C14 ----
\* the names a list of names spells out, ", " between them
RECURSIVE Listed(_)
Listed(items) ==
    IF Len(items) = 0 THEN <<>>
    ELSE Listed(SubSeq(items, 1, Len(items) - 1))
         \o (IF Len(items) > 1 THEN <<",", " ">> ELSE <<>>) \o Chars(items[Len(items)])

\* C14: the footnote is the prefix "No es fuente significativa de " followed by the
\* unselected entries of macro_order in macro_order order and then the unselected
\* mandatory micronutrients in their fixed order, joined by ", "; it is the empty
\* string exactly when all nine macros and all five mandatory micronutrients are
\* selected.
C14_Footnote ==
    LET missing == SelectSeq(macro_order, LAMBDA m : m \notin Range(selected_macros))
                   \o SelectSeq(mandatory_micros, LAMBDA m : m \notin Range(selected_vm))
        allSelected == /\ Range(macro_order) \subseteq Range(selected_macros)
                       /\ Range(mandatory_micros) \subseteq Range(selected_vm)
    IN  /\ (footnote_text = <<>>) <=> allSelected
        /\ ~allSelected => footnote_text = NoSignifPrefix \o Listed(missing)

\* a macro and a mandatory micronutrient left out: both listed, the macro first
C14_Witness ==
    /\ ~InSeq("Sodio", selected_macros)
    /\ ~InSeq("Vitamina A", selected_vm)
    /\ footnote_text = NoSignifPrefix \o Chars("Sodio") \o <<",", " ">> \o Chars("Vitamina A")

\* ---- C15 ----
\* C15: compute_cols_vertical returns x0 < x1 < x2 < x3 for every row set (the empty
\* one included) and a width that is at least the nominal width and at least x3; the
\* nominal width comes back unchanged when x3 does not exceed it, and otherwise the
\* width grows so that x3 lies inside the canvas.
C15_ColumnsIncreasing ==
    fn_name = "compute_cols_vertical" =>
        LET c == fn_val.col_x
        IN  /\ Len(c) = 4
            /\ c[1] < c[2] /\ c[2] < c[3] /\ c[3] < c[4]
            /\ fn_val.W >= fn_arg.W
            /\ fn_val.W >= c[4]
            /\ c[4] <= fn_arg.W => fn_val.W = fn_arg.W
            /\ c[4] > fn_arg.W => c[4] < fn_val.W

\* a row set that needs more than the nominal width
C15_Witness ==
    /\ fn_name = "compute_cols_vertical"
    /\ fn_arg.labels_with_indent # <<>>
    /\ fn_val.col_x[4] > fn_arg.W
    /\ fn_val.W > fn_arg.W

\* the empty row set, which fits the nominal width
C15_WitnessEmpty ==
    /\ fn_name = "compute_cols_vertical"
    /\ fn_arg.labels_with_indent = <<>> /\ fn_arg.v100_list = <<>> /\ fn_arg.vpp_list = <<>>
    /\ fn_val.W = fn_arg.W

\* ---- C16 ----
EmphasisNames == {"Grasa saturada", "Grasas trans", "Azúcares añadidos", "Sodio"}

\* every text of a list is at most w wide in the font
AllFit(texts, font, w) == \A i \in DOMAIN texts : measure_text(texts[i], font) <= w

\* C16: the name column (x1 - x0 less the 35 px gap) is at least the width of every
\* row label in its font (the emphasis font for Grasa saturada, Grasas trans, Azúcares
\* añadidos and Sodio, the regular label font otherwise) plus 28 px per indent level;
\* the per-100 column (x2 - x1 less the 20 px gap) and the per-portion column
\* (x3 - x2 less the 15 px margin) are each at least as wide as their widest value
\* string and as their header string.
C16_ColumnsFit ==
    fn_name = "compute_cols_vertical" =>
        LET c    == fn_val.col_x
            rows == fn_arg.labels_with_indent
            font(label) == IF \E n \in EmphasisNames : label = Chars(n)
                           THEN FONT_LABEL_EMPH_B ELSE FONT_LABEL
            hdr  == column_labels(fn_arg.is_liquid)
        IN  /\ \A i \in DOMAIN rows :
                  c[2] - c[1] - 35 >= measure_text(rows[i][1], font(rows[i][1]))
                                      + 28 * rows[i][2]
            /\ AllFit(fn_arg.v100_list, FONT_LABEL, c[3] - c[2] - 20)
            /\ measure_text(hdr[1], FONT_SMALL_B) <= c[3] - c[2] - 20
            /\ AllFit(fn_arg.vpp_list, FONT_LABEL, c[4] - c[3] - 15)
            /\ measure_text(hdr[2], FONT_SMALL_B) <= c[4] - c[3] - 15

\* an indented emphasis row is the widest label and a value is wider than its header
C16_Witness ==
    /\ fn_name = "compute_cols_vertical"
    /\ fn_arg.labels_with_indent = <<<<Chars("Azúcares añadidos"), 2>>, <<Chars("Zinc"), 0>>>>
    /\ \E i \in DOMAIN fn_arg.v100_list :
          measure_text(fn_arg.v100_list[i], FONT_LABEL)
              > measure_text(column_labels(fn_arg.is_liquid)[1], FONT_SMALL_B)
    /\ fn_val.col_x[2] - fn_val.col_x[1] - 35
          >= measure_text(Chars("Azúcares añadidos"), FONT_LABEL_EMPH_B) + 2 * 28

\* ---- C17 ----
RECURSIVE Flatten(_)
Flatten(lines) == IF lines = <<>> THEN <<>> ELSE Head(lines) \o Flatten(Tail(lines))

\* the tokens of the call that carry text
KeptTokens == SelectSeq(fn_arg.tokens, LAMBDA tok : tok[1] # <<>>)

\* C17: the lines draw_rich_wrapped_text builds, concatenated in order, are the input
\* tokens without the empty-text ones (nothing lost, duplicated, reordered or split);
\* no line is empty, and a token wider than max_w is alone on its line.
C17_WrapKeepsTokens ==
    fn_name = "draw_rich_wrapped_text" =>
        LET lines == fn_val.lines
        IN  /\ Flatten(lines) = KeptTokens
            /\ \A i \in DOMAIN lines : lines[i] # <<>>
            /\ \A i \in DOMAIN lines : \A j \in DOMAIN lines[i] :
                  TokensWidth(<<lines[i][j]>>) > fn_arg.max_w => Len(lines[i]) = 1

\* an empty token dropped, and a token wider than max_w between two others
C17_Witness ==
    /\ fn_name = "draw_rich_wrapped_text"
    /\ fn_arg.tokens = <<TokSep, <<<<>>, "False">>, TokSodio>>
    /\ TokensWidth(<<TokSodio>>) > fn_arg.max_w
    /\ fn_val.lines = <<<<TokSep>>, <<TokSodio>>>>

\* ---- C18 ----
\* first_line_x - x, which counts on the first line only
LineOffset(i) ==
    IF i = 1 /\ fn_arg.first_line_x # <<>> THEN fn_arg.first_line_x[1] - fn_arg.x ELSE 0

\* C18: every line of two or more tokens measures (with the first-line offset, on the
\* first line only) at most max_w; the first token of each later line would have
\* taken the line before it above max_w; tokens that measure max_w exactly stay on
\* one line, and a further token of positive width then starts a second line.
C18_GreedyPacking ==
    fn_name = "draw_rich_wrapped_text" =>
        LET lines == fn_val.lines
            kept  == KeptTokens
        IN  /\ \A i \in DOMAIN lines :
                  Len(lines[i]) >= 2 => TokensWidth(lines[i]) + LineOffset(i) <= fn_arg.max_w
            /\ \A i \in DOMAIN lines :
                  i > 1 => TokensWidth(Append(lines[i - 1], lines[i][1])) + LineOffset(i - 1)
                              > fn_arg.max_w
            /\ \A k \in DOMAIN kept :
                  TokensWidth(SubSeq(kept, 1, k)) + LineOffset(1) = fn_arg.max_w =>
                      /\ lines[1] = SubSeq(kept, 1, k)
                      /\ (k = Len(kept) => Len(lines) = 1)
                      /\ (k < Len(kept) /\ TokensWidth(<<kept[k + 1]>>) > 0 => Len(lines) >= 2)

\* two tokens fill max_w exactly and stay together; the third starts a second line
C18_Witness ==
    /\ fn_name = "draw_rich_wrapped_text"
    /\ fn_arg.tokens = <<TokSodio, TokSep, TokProteina>>
    /\ TokensWidth(<<TokSodio, TokSep>>) + LineOffset(1) = fn_arg.max_w
    /\ fn_val.lines = <<<<TokSodio, TokSep>>, <<TokProteina>>>>

\* ---- C19 ----
\* every row the row builders produce for the label
AllRows == common_rows \o micro_rows

LinearDrawn == format_choice = "Fig5" /\ img_prev.status = "image"

NoDanglingSep(tokens) == tokens # <<>> /\ tokens[Len(tokens)] # SepToken

\* C20: in the Linear variant each of the two token streams handed to the wrapper,
\* the per-100 block and the per-portion block, has had its trailing ", " separator
\* token removed, so neither block ends in a dangling separator.
C20_TrailingSeparatorRemoved ==
    LinearDrawn => NoDanglingSep(tokens_100) /\ NoDanglingSep(tokens_pp)

\* the per-portion block alone does lose its final separator
C20_PerPortionTrimmed == LinearDrawn => NoDanglingSep(tokens_pp)

\* ---- C21 ----
TitleTexts ==
    { <<"T", "a", "m", "a", "ñ", "o", " ", "d", "e", " ", "p", "o", "r", "c", "i", "ó", "n", ":">>,
      <<"N", "ú", "m", "e", "r", "o", " ", "d", "e", " ", "p", "o", "r", "c", "i", "o", "n", "e", "s", " ", "p", "o", "r">>
          \o <<" ", "e", "n", "v", "a", "s", "e", ":">> }

\* C21: in the Linear variant the title tokens "Tamaño de porción:" and "Número de
\* porciones por envase:" carry a weight the wrapper maps to a bold font, both when
\* it measures the token and when it draws it.
C21_TitlesBold ==
    LET toks == tokens_pp
    IN  LinearDrawn =>
            /\ \E i \in DOMAIN toks : toks[i][1] \in TitleTexts
            /\ \A i \in DOMAIN toks :
                  toks[i][1] \in TitleTexts =>
                      TokenFont(toks[i][2]).bold /\ DrawnFont(toks[i][2]).bold

\* the Calorías item of the same stream is measured and drawn in a bold font
C21_EnergyItemBold ==
    LET toks == tokens_pp
    IN  LinearDrawn =>
            \E i \in DOMAIN toks :
                /\ toks[i][1] = <<"C", "a", "l", "o", "r", "í", "a", "s">>
                /\ TokenFont(toks[i][2]).bold /\ DrawnFont(toks[i][2]).bold

\* ---- C22 ----
\* the texts the generated label carries in the chosen variant, in declaration order:
\* the row labels of the two vertical variants, the token texts of the per-100 block
\* of the Linear variant; nothing when the renderer raises
DeclaredTexts ==
    IF img_prev.status # "image" THEN <<>>
    ELSE IF format_choice = "Fig5"
    THEN LET toks == tokens_100 IN [i \in DOMAIN toks |-> toks[i][1]]
    ELSE LET rows == AllRows IN [i \in DOMAIN rows |-> Chars(rows[i].label)]

\* C22: whenever the polyalcohols option is enabled, the generated label declares a
\* Polialcoholes item, after Fibra dietaria and before Azúcares totales.
C22_PolyalcoholsDeclared ==
    LET d == DeclaredTexts
    IN  include_poly =>
            \E i \in DOMAIN d :
                /\ d[i] = Chars("Polialcoholes")
                /\ \A j \in DOMAIN d :
                      /\ d[j] = Chars("Fibra dietaria") => j < i
                      /\ d[j] = Chars("Azúcares totales") => i < j

\* in the two vertical variants a label is generated with the option enabled
C22_VerticalRendersWithPoly ==
    include_poly /\ format_choice \in {"Fig1", "Fig3"} => img_prev.status = "image"

\* ---- C23 ----
VerticalDrawn == format_choice \in {"Fig1", "Fig3"} /\ img_prev.status = "image"

\* C23: in the Vertical-Standard and Simplified variants the last line of the wrapped
\* footnote is drawn inside the canvas: its y plus its text height is at most the
\* canvas height H minus the border.
C23_FootnoteInsideCanvas ==
    LET c == vertical_canvas
        n == Len(c.lines)
    IN  VerticalDrawn /\ n > 0 =>
            c.line_y[n] + text_height(c.lines[n], FONT_SMALL) <= c.H - BORDER_W

\* a footnote of at most two lines does stay inside the canvas
C23_ShortFootnoteInside ==
    LET c == vertical_canvas
        n == Len(c.lines)
    IN  VerticalDrawn /\ n \in {1, 2} =>
            c.line_y[n] + text_height(c.lines[n], FONT_SMALL) <= c.H - BORDER_W

\* ---- C24 ----
\* C24: in the Vertical-Standard and Simplified variants every value string, measured
\* in the font the row is drawn with (the larger bold font for emphasis rows), fits
\* its column: the per-100 value is at most x2 - x1 wide and the per-portion value at
\* most x3 - x2, with the offsets compute_cols_vertical returned.
C24_ValuesFitColumns ==
    LET c == vertical_canvas
    IN  VerticalDrawn =>
            \A i \in DOMAIN c.rows :
                /\ measure_text(c.rows[i].v100, c.font_val[i]) <= c.col_x[3] - c.col_x[2]
                /\ measure_text(c.rows[i].vpp, c.font_val[i]) <= c.col_x[4] - c.col_x[3]

\* the rows drawn in the font the columns were measured with, or a smaller one, fit
C24_PlainValuesFit ==
    LET c == vertical_canvas
    IN  VerticalDrawn =>
            \A i \in DOMAIN c.rows :
                ~c.rows[i].bold =>
                    /\ measure_text(c.rows[i].v100, c.font_val[i]) <= c.col_x[3] - c.col_x[2]
                    /\ measure_text(c.rows[i].vpp, c.font_val[i]) <= c.col_x[4] - c.col_x[3]

====
